---- MODULE Spec2Model ----
(***************************************************************************)
(* Universal Vault V4 (fabled-vault): the MCP tool server with its         *)
(* credential/grant store and token engine, the CLI revoke command, and    *)
(* the HTTP categories server with its audit log.                          *)
(*                                                                         *)
(* The repository holds two builds of the MCP server (the VaultDB-backed   *)
(* servers/mcp-server.js and the in-memory TypeScript server) and two      *)
(* VaultError classes; which one runs is fixed at start-up (build).        *)
(* A behaviour is a run of one process: the MCP server (system = "mcp")    *)
(* or the HTTP server (system = "http").                                   *)
(***************************************************************************)
EXTENDS Integers, Sequences, FiniteSets, TLC

VARIABLES
    system,        \* which process this run is: "mcp" or "http"
    build,         \* [server, errors]: the MCP server build that is running
    now,           \* Date.now(), in minutes
    credentials,   \* rows of table credentials / entries of the credentials Map
    grants,        \* rows of table access_grants / entries of the grants Map
    console,       \* lines the most recent request wrote with console.log
    lastCall,      \* the most recent tool call or CLI command, with its response
    requested,     \* observer: what each vault_grant_access asked for, per grant
    revoked,       \* observer: grant ids covered by a reported revocation
    auditFile,     \* logs/vault-audit.jsonl: the entries appended, in file order
    pending,       \* calls of auditLog whose write has not completed
    requests       \* number of HTTP requests handled

mcpVars == <<build, now, credentials, grants, console, lastCall, requested, revoked>>

httpVars == <<auditFile, pending, requests>>

-----------------------------------------------------------------------------
(* Bounds of the model *)

MaxTime == 2
MaxGrants == 1
MaxStreak == 2
MaxRequests == 2

-----------------------------------------------------------------------------
(* Strings: JavaScript string primitives used by the code *)

NULL == "<null>"
Undefined == "<undefined>"

Range(f) == { f[i] : i \in DOMAIN f }

\* s.substring(i - 1, j), clipped to the string as JavaScript clips it
Substring(s, i, j) ==
    LET a == IF i < 1 THEN 1 ELSE i
        b == IF j > Len(s) THEN Len(s) ELSE j
    IN IF a > b THEN "" ELSE SubSeq(s, a, b)

\* the first position from i on where sub occurs in s, 0 when there is none
Find(s, sub, i) ==
    LET hits == { k \in i..(Len(s) - Len(sub) + 1) :
                    SubSeq(s, k, k + Len(sub) - 1) = sub }
    IN IF hits = {} THEN 0 ELSE CHOOSE k \in hits : \A j \in hits : k <= j

\* s.indexOf(sub) + 1
IndexOf(s, sub) == Find(s, sub, 1)

\* s.includes(sub)
Contains(s, sub) ==
    LET n == Len(sub)
    IN \E k \in 1..(Len(s) - n + 1) : SubSeq(s, k, k + n - 1) = sub

CharAt(s, i) == IF i >= 1 /\ i <= Len(s) THEN Substring(s, i, i) ELSE ""

\* String(value) as String.prototype.replace applies it to a replacement
StringOf(v) == IF v = Undefined THEN "undefined" ELSE v

\* the members every object inherits from Object.prototype that the model knows,
\* and the function objects they hold
ObjectPrototype == {"constructor", "toString"}
Function(name) == "<function " \o name \o ">"
IsFunction(v) == v \in { Function(name) : name \in ObjectPrototype }

\* String(f(matched, position, string)) for a function f given to replace, called
\* without a receiver: Object(matched) is a String object of the match, and
\* Object.prototype.toString of undefined is "[object Undefined]"
CallReplacer(f, matched) ==
    IF f = Function("constructor") THEN matched ELSE "[object Undefined]"

\* GetSubstitution: the $-patterns of a replacement string (no capture groups)
RECURSIVE GetSubstitution(_, _, _, _, _)
GetSubstitution(rep, i, matched, before, after) ==
    IF i > Len(rep) THEN ""
    ELSE IF CharAt(rep, i) = "$" /\ CharAt(rep, i + 1) = "$"
         THEN "$" \o GetSubstitution(rep, i + 2, matched, before, after)
    ELSE IF CharAt(rep, i) = "$" /\ CharAt(rep, i + 1) = "&"
         THEN matched \o GetSubstitution(rep, i + 2, matched, before, after)
    ELSE IF CharAt(rep, i) = "$" /\ CharAt(rep, i + 1) = "`"
         THEN before \o GetSubstitution(rep, i + 2, matched, before, after)
    ELSE IF CharAt(rep, i) = "$" /\ CharAt(rep, i + 1) = "'"
         THEN after \o GetSubstitution(rep, i + 2, matched, before, after)
    ELSE CharAt(rep, i) \o GetSubstitution(rep, i + 1, matched, before, after)

\* s.replace(pat, value) with a string pattern: the first occurrence only
StringReplace(s, pat, value) ==
    LET i == IndexOf(s, pat)
        before == Substring(s, 1, i - 1)
        after == Substring(s, i + Len(pat), Len(s))
        rep == StringOf(value)
    IN IF i = 0 THEN s
       ELSE IF IsFunction(value) THEN before \o CallReplacer(value, pat) \o after
       ELSE IF ~Contains(rep, "$") THEN before \o rep \o after
       ELSE before \o GetSubstitution(rep, 1, pat, before, after) \o after

-----------------------------------------------------------------------------
(* TokenEngine *)

TokenAlphabet == "abcdefghijklmnopqrstuvwxyzABCDEFGHIJKLMNOPQRSTUVWXYZ0123456789_-"

\* the character class [a-zA-Z0-9_-]
TokenChars == { Substring(TokenAlphabet, i, i) : i \in 1..Len(TokenAlphabet) }

\* end of the longest run of [a-zA-Z0-9_-] starting at i (i - 1 when empty)
RECURSIVE RunEnd(_, _)
RunEnd(s, i) ==
    IF i <= Len(s) /\ CharAt(s, i) \in TokenChars THEN RunEnd(s, i + 1) ELSE i - 1

NoMatch == [matched |-> FALSE]

\* the optional group (?:\.([a-zA-Z0-9_-]+))? and the closing bracket
MatchField(s, i, nsEnd, credEnd, fieldEnd) ==
    IF /\ CharAt(s, credEnd + 1) = "."
       /\ fieldEnd >= credEnd + 2
       /\ CharAt(s, fieldEnd + 1) = "]"
    THEN [matched |-> TRUE, last |-> fieldEnd + 1,
          token |-> [raw |-> Substring(s, i, fieldEnd + 1),
                     namespace |-> Substring(s, i + 7, nsEnd),
                     credential |-> Substring(s, nsEnd + 2, credEnd),
                     field |-> Substring(s, credEnd + 2, fieldEnd)]]
    ELSE IF CharAt(s, credEnd + 1) = "]"
    THEN [matched |-> TRUE, last |-> credEnd + 1,
          token |-> [raw |-> Substring(s, i, credEnd + 1),
                     namespace |-> Substring(s, i + 7, nsEnd),
                     credential |-> Substring(s, nsEnd + 2, credEnd),
                     field |-> Undefined]]
    ELSE NoMatch

\* the second group ([a-zA-Z0-9_-]+)
MatchCredential(s, i, nsEnd, credEnd) ==
    IF credEnd < nsEnd + 2 THEN NoMatch
    ELSE MatchField(s, i, nsEnd, credEnd, RunEnd(s, credEnd + 2))

\* \[VAULT: and the first group ([a-zA-Z0-9_-]+) up to its colon
MatchNamespace(s, i, nsEnd) ==
    IF Substring(s, i, i + 6) # "[VAULT:" THEN NoMatch
    ELSE IF nsEnd < i + 7 \/ CharAt(s, nsEnd + 1) # ":" THEN NoMatch
    ELSE MatchCredential(s, i, nsEnd, RunEnd(s, nsEnd + 2))

\* TOKEN_PATTERN applied at position i; the groups are greedy and a group that
\* gives a character back cannot make the pattern match
TOKEN_PATTERN(s, i) == MatchNamespace(s, i, RunEnd(s, i + 7))

\* the matches from position i on, each search resuming after the last match
RECURSIVE MatchFrom(_, _, _)
MatchFrom(s, i, m) ==
    IF i > Len(s) THEN <<>>
    ELSE IF m.matched
         THEN <<m.token>> \o MatchFrom(s, m.last + 1, TOKEN_PATTERN(s, m.last + 1))
         ELSE MatchFrom(s, i + 1, TOKEN_PATTERN(s, i + 1))

MatchAll(s, i) == MatchFrom(s, i, TOKEN_PATTERN(s, i))

\* the first match of the pattern without the g flag, anywhere in the string
FirstMatch(all) ==
    IF Len(all) = 0 THEN NoMatch ELSE [matched |-> TRUE, token |-> all[1]]

\* TokenEngine.validateTokenFormat(token): pattern.test(token)
validateTokenFormat(token) == FirstMatch(MatchAll(token, 1)).matched

\* TokenEngine.parseToken(token): the VaultToken of token.match(pattern), or
\* NoMatch for null
parseToken(token) == FirstMatch(MatchAll(token, 1))

\* the texts callers submit
Texts == { "no tokens here",
           "key=[VAULT:personal:schwab_api]",
           "[VAULT:personal:chase_login.password]",
           "[VAULT:personal:schwab_api]/[VAULT:personal:chase_login.username]" }

TextTokens == [text \in Texts |-> MatchAll(text, 1)]

\* extractTokens(text): one VaultToken per match, in order (tabulated for Texts)
extractTokens(text) == IF text \in Texts THEN TextTokens[text] ELSE MatchAll(text, 1)

CredentialKey(token) == token.namespace \o ":" \o token.credential

\* VaultError.credentialNotFound(key).message
credentialNotFound(key) == "Credential not found: " \o key

\* VaultError.authenticationFailed(msg).message: the class of the compiled types
\* module keeps msg, the class of the core type definitions takes it as details
authenticationFailed(msg) ==
    IF build.errors = "message" THEN msg ELSE "Authentication failed"

FieldNotFound(field, key) ==
    "Field '" \o field \o "' not found in credential '" \o key \o "'"

\* JSON values: a string, or an object given as its <<key, value>> pairs in order
Str(s) == [s |-> s, t |-> "string"]
Obj(m) == [m |-> m, t |-> "object"]
Absent == [t |-> "undefined"]

HasField(d, f) == d.t = "object" /\ \E i \in 1..Len(d.m) : d.m[i][1] = f
GetField(d, f) == d.m[CHOOSE i \in 1..Len(d.m) : d.m[i][1] = f][2]

\* f in d, for an object: its own members and those of Object.prototype
In(f, d) == d.t = "object" /\ (HasField(d, f) \/ f \in ObjectPrototype)

\* d[f]: the own member, else the inherited one, else undefined
Get(d, f) ==
    IF HasField(d, f) THEN GetField(d, f)
    ELSE IF f \in ObjectPrototype THEN Function(f)
    ELSE Undefined

\* credentials.get(key) of a Map
MapGet(creds, key) == IF key \in DOMAIN creds THEN creds[key] ELSE Absent

\* the strings a credential's data holds
PlainValues(d) ==
    IF d.t = "string" THEN {d.s} ELSE { d.m[i][2] : i \in 1..Len(d.m) }

RECURSIVE Members(_, _)
Members(m, i) ==
    IF i > Len(m) THEN ""
    ELSE (IF i > 1 THEN "," ELSE "")
         \o "\"" \o m[i][1] \o "\":\"" \o m[i][2] \o "\"" \o Members(m, i + 1)

\* JSON.stringify(data); the strings of the model need no escaping
JSONstringify(d) ==
    IF d.t = "string" THEN "\"" \o d.s \o "\"" ELSE "{" \o Members(d.m, 1) \o "}"

\* resolveToken(token, credentials, context): credentials maps keys to parsed data
\* or Absent; yields the value, or the error it throws
resolveToken(token, creds) ==
    LET key == CredentialKey(token)
        credential == MapGet(creds, key)
    IN IF credential = Absent \/ credential = Str("")
       THEN [ok |-> FALSE, error |-> credentialNotFound(key),
             code |-> "CREDENTIAL_NOT_FOUND"]
       ELSE IF token.field # Undefined
       THEN IF ~In(token.field, credential)
            THEN [ok |-> FALSE, error |-> FieldNotFound(token.field, key),
                  code |-> "FIELD_NOT_FOUND"]
            ELSE [ok |-> TRUE, raw |-> token.raw,
                  value |-> Get(credential, token.field)]
       ELSE [ok |-> TRUE, raw |-> token.raw,
             value |-> IF credential.t = "string" THEN credential.s
                       ELSE Get(credential, "value")]

\* auditTokenAccess(token, context): the console.log line
auditTokenAccess(token, agentId) ==
    "[AUDIT] " \o agentId \o " accessed " \o CredentialKey(token)

RECURSIVE ApplySubstitutions(_, _, _)
ApplySubstitutions(result, subs, i) ==
    IF i > Len(subs) THEN result
    ELSE ApplySubstitutions(StringReplace(result, subs[i].raw, subs[i].value),
                            subs, i + 1)

\* the audit lines of the tokens that resolve, in token order: resolveToken runs
\* up to its first await inside tokens.map, also when another token rejects
RECURSIVE AuditLines(_, _, _, _)
AuditLines(tokens, creds, agentId, i) ==
    IF i > Len(tokens) THEN <<>>
    ELSE (IF resolveToken(tokens[i], creds).ok
          THEN <<auditTokenAccess(tokens[i], agentId)>> ELSE <<>>)
         \o AuditLines(tokens, creds, agentId, i + 1)

\* a change of the code under which the replacements start from an empty result
\* instead of the text
SubstituteFromEmpty(text, subs, bad, lines) ==
    IF bad # {}
    THEN [ok |-> FALSE, lines |-> lines, reads |-> Len(subs),
          error |-> subs[CHOOSE i \in bad : \A j \in bad : i <= j].error,
          code |-> subs[CHOOSE i \in bad : \A j \in bad : i <= j].code]
    ELSE [ok |-> TRUE, lines |-> lines, reads |-> Len(subs),
          text |-> ApplySubstitutions("", subs, 1)]

\* Promise.all of the resolutions, then the replacements in token order: the
\* text, or the rejection of the first token that fails
Substitute(text, subs, bad, lines) ==
    IF bad # {}
    THEN [ok |-> FALSE, lines |-> lines, reads |-> Len(subs),
          error |-> subs[CHOOSE i \in bad : \A j \in bad : i <= j].error,
          code |-> subs[CHOOSE i \in bad : \A j \in bad : i <= j].code]
    ELSE [ok |-> TRUE, lines |-> lines, reads |-> Len(subs),
          text |-> ApplySubstitutions(text, subs, 1)]

Resolve(text, tokens, creds, agentId, subs) ==
    Substitute(text, subs, { i \in 1..Len(tokens) : ~subs[i].ok },
               AuditLines(tokens, creds, agentId, 1))

Resolutions(text, tokens, creds, agentId) ==
    Resolve(text, tokens, creds, agentId,
            [i \in 1..Len(tokens) |-> resolveToken(tokens[i], creds)])

\* substituteTokens(text, credentials, context): the text or the first rejection,
\* the lines written to the console and the number of credentials.get calls
substituteTokens(text, creds, agentId) ==
    Resolutions(text, extractTokens(text), creds, agentId)

-----------------------------------------------------------------------------
(* Inputs of the MCP server *)

Agents == {"grant", "main"}
Owner == "owner"

Keys == { [namespace |-> "personal", name |-> "chase_login"],
          [namespace |-> "personal", name |-> "schwab_api"] }

KeyOf(k) == k.namespace \o ":" \o k.name

\* the data a caller stores under a name; distinct names hold distinct secrets
DataFor(name) ==
    IF name = "chase_login"
    THEN { Obj(<< <<"username", "m@x.com">>, <<"password", "p1">> >>) }
    ELSE { Str("tok9"), Str("tok8") }

JsonValues == UNION { DataFor(k.name) : k \in Keys }

\* JSON.parse(text) of a text JSON.stringify wrote
JSONparse(text) == CHOOSE d \in JsonValues : JSONstringify(d) = text

\* <<duration_minutes, max_uses>> of a grant request; a minute is one Tick
GrantTerms == { <<0, 0>>, <<1, 0>>, <<0, 1>> }

Digits == "0123456789"

\* Ids are opaque: the code compares a grant's credential_id with a credential's
\* id and nothing else. The model names an id after what it is generated for and
\* numbers it, which keeps states equal that differ in the spelling of ids only.
IdName(tag, n) == tag \o "#" \o Substring(Digits, n + 1, n + 1)

\* every id a grant or an observer mentions
UsedIds ==
    { g.id : g \in grants } \cup { g.credential_id : g \in grants } \cup revoked

\* generateId(): Date.now() and a random suffix, an id nothing holds yet: the
\* n-th id of its tag that no grant mentions (a replaced row's id that no grant
\* mentions is as good as new)
generateId(tag, n) ==
    LET free == { i \in 1..(MaxGrants + 2) : IdName(tag, i) \notin UsedIds }
        nth == CHOOSE i \in free : Cardinality({ j \in free : j < i }) = n - 1
    IN IdName(tag, nth)

-----------------------------------------------------------------------------
(* VaultDB, and the Maps of the in-memory server *)

\* getCredential(namespace, name): the row, or one with id NULL for null
getCredential(namespace, name) ==
    LET rows == { c \in credentials : c.namespace = namespace /\ c.name = name }
    IN IF rows = {} THEN [id |-> NULL] ELSE CHOOSE c \in rows : TRUE

\* a change of the code under which the statement is a plain INSERT into a table
\* without the UNIQUE(namespace, name) constraint
addCredentialInsert(credential) == credentials \cup {credential}

\* addCredential(credential): INSERT OR REPLACE under PRIMARY KEY id and
\* UNIQUE(namespace, name); credentials.set(key, credential) in memory
addCredential(credential) ==
    { c \in credentials :
        /\ c.id # credential.id
        /\ ~(c.namespace = credential.namespace /\ c.name = credential.name) }
    \cup {credential}

\* a change of the code under which the statement leaves out agent_id = ?
dbHasAccessAnyAgent(agentId, credentialId) ==
    \E g \in grants : g.credential_id = credentialId /\ g.is_active

\* VaultDB.hasAccess(agentId, credentialId): COUNT(*) > 0 of the active rows
dbHasAccess(agentId, credentialId) ==
    \E g \in grants :
        g.agent_id = agentId /\ g.credential_id = credentialId /\ g.is_active

\* UniversalVaultMCPServer.hasAccess(agentId, credentialKey)
hasAccess(agentId, namespace, name) ==
    IF build.server = "memory"
    THEN TRUE
    ELSE LET credential == getCredential(namespace, name)
         IN IF credential.id = NULL THEN FALSE
            ELSE dbHasAccess(agentId, credential.id)

-----------------------------------------------------------------------------
(* The MCP server *)

Response(text) == [isError |-> FALSE, text |-> text]

\* the catch of the CallToolRequestSchema handler
ErrorResponse(message) == [isError |-> TRUE, text |-> "Error: " \o message]

\* the builds: the in-memory server never reaches a VaultError of its own making
\* in the access check, the VaultDB server runs with either VaultError class
McpInit ==
    /\ build \in { [server |-> "memory", errors |-> "details"],
                   [server |-> "db", errors |-> "message"],
                   [server |-> "db", errors |-> "details"] }
    /\ now = 0
    /\ credentials = {}
    /\ grants = {}
    /\ console = <<>>
    /\ lastCall = [tool |-> "none"]
    /\ requested = {}
    /\ revoked = {}

\* the clock advances
Tick ==
    /\ system = "mcp"
    /\ now < MaxTime
    /\ now' = now + 1
    /\ UNCHANGED <<build, credentials, grants, console, lastCall, requested, revoked>>
    /\ UNCHANGED <<system, httpVars>>

\* handleAddCredential(args)
AddCredential(namespace, name, data) ==
    LET credential == [id |-> generateId(name, 1),
                       namespace |-> namespace,
                       name |-> name,
                       type |-> IF data.t = "object" THEN "structured" ELSE "simple",
                       encrypted_data |-> JSONstringify(data)]
        key == namespace \o ":" \o name
    IN /\ system = "mcp"
       /\ credentials' = addCredential(credential)
       /\ console' = <<>>
       /\ lastCall' = [tool |-> "vault_add_credential", namespace |-> namespace,
                       name |-> name, data |-> data,
                       response |-> Response("Credential '" \o key
                           \o "' added successfully. Use token: [VAULT:" \o key \o "]")]
       /\ UNCHANGED <<build, now, grants, requested, revoked>>
       /\ UNCHANGED <<system, httpVars>>

\* the grant handleGrantAccess builds for credential_ids[i]; the db server drops
\* duration_minutes and max_uses, and its table has no expiry column
NewGrant(credId, agent_id, duration_minutes, max_uses, i) ==
    [id |-> generateId("grant", i),
     credential_id |-> credId,
     agent_id |-> agent_id,
     uses_remaining |-> IF build.server = "memory" /\ max_uses > 0
                        THEN max_uses ELSE 0 - 1,
     expires_at |-> IF build.server = "memory" /\ duration_minutes > 0
                    THEN now + duration_minutes ELSE 0 - 1,
     is_active |-> TRUE]

RECURSIVE JoinIds(_, _)
JoinIds(n, i) ==
    IF i > n THEN ""
    ELSE (IF i > 1 THEN ", " ELSE "") \o generateId("grant", i) \o JoinIds(n, i + 1)

\* handleGrantAccess(args). The request carries no identity of its sender: by, the
\* principal that sends it, reaches no part of the handler
GrantAccess(credential_ids, agent_id, duration_minutes, max_uses, by) ==
    LET n == Len(credential_ids)
        made == { NewGrant(credential_ids[i], agent_id, duration_minutes, max_uses, i) :
                    i \in 1..n }
    IN /\ system = "mcp"
       /\ Cardinality(grants) + n <= MaxGrants
       /\ grants' = grants \cup made
       /\ requested' = requested \cup
              { [id |-> generateId("grant", i),
                 credential_id |-> credential_ids[i],
                 agent_id |-> agent_id,
                 by |-> by,
                 max_uses |-> max_uses,
                 expires |-> IF duration_minutes > 0 THEN now + duration_minutes
                             ELSE 0 - 1] : i \in 1..n }
       /\ console' = <<>>
       /\ lastCall' = [tool |-> "vault_grant_access", agent_id |-> agent_id,
                       credential_ids |-> credential_ids,
                       response |-> Response("Access granted to " \o agent_id
                           \o " for " \o Substring(Digits, n + 1, n + 1)
                           \o " credentials. Grant IDs: " \o JoinIds(n, 1))]
       /\ UNCHANGED <<build, now, credentials, revoked>>
       /\ UNCHANGED <<system, httpVars>>

\* the first token the access check refuses, 0 when it refuses none
FirstDenied(tokens, agent_id) ==
    LET denied == { i \in 1..Len(tokens) :
                      ~hasAccess(agent_id, tokens[i].namespace, tokens[i].credential) }
    IN IF denied = {} THEN 0 ELSE CHOOSE i \in denied : \A j \in denied : i <= j

\* the credentialsMap handleTokenSubstitution builds
CredentialsMap(tokens) ==
    [key \in { CredentialKey(tokens[i]) : i \in 1..Len(tokens) } |->
        LET t == CHOOSE tok \in { tokens[i] : i \in 1..Len(tokens) } :
                    CredentialKey(tok) = key
            credential == getCredential(t.namespace, t.credential)
        IN IF credential.id = NULL THEN Absent
           ELSE JSONparse(credential.encrypted_data)]

\* the end of handleTokenSubstitution: the substituted text, or what the catch of
\* the CallTool handler makes of the rejection
Substituted(result, n) ==
    IF ~result.ok
    THEN [response |-> ErrorResponse(result.error), lines |-> result.lines,
          checks |-> n, reads |-> n]
    ELSE [response |-> Response(result.text), lines |-> result.lines,
          checks |-> n, reads |-> n]

\* the access loop over the tokens, then the substitution; checks and reads
\* count the calls of hasAccess and of db.getCredential
CheckAccess(text, agent_id, tokens, denied) ==
    IF Len(tokens) = 0
    THEN [response |-> Response(text), lines |-> <<>>, checks |-> 0, reads |-> 0]
    ELSE IF denied # 0
    THEN [response |-> ErrorResponse(authenticationFailed(
              "No access to " \o CredentialKey(tokens[denied]))),
          lines |-> <<>>, checks |-> denied, reads |-> 0]
    ELSE Substituted(substituteTokens(text, CredentialsMap(tokens), agent_id),
                     Len(tokens))

Extracted(text, agent_id, tokens) ==
    CheckAccess(text, agent_id, tokens, FirstDenied(tokens, agent_id))

\* handleTokenSubstitution(args): the response and the console lines
handleTokenSubstitution(text, agent_id) ==
    Extracted(text, agent_id, extractTokens(text))

\* the successful calls in a row of the same agent on the same text that nothing
\* but the clock came between, this one included
Streak(text, agent_id, isError) ==
    IF isError THEN 0
    ELSE IF /\ lastCall.tool = "vault_substitute_tokens"
            /\ lastCall.text = text
            /\ lastCall.agent_id = agent_id
            /\ ~lastCall.response.isError
            /\ lastCall.streak < MaxStreak
         THEN lastCall.streak + 1
    ELSE IF /\ lastCall.tool = "vault_substitute_tokens"
            /\ lastCall.text = text
            /\ lastCall.agent_id = agent_id
            /\ ~lastCall.response.isError
         THEN MaxStreak
    ELSE 1

Answered(text, agent_id, out) ==
    /\ system = "mcp"
    /\ console' = out.lines
    /\ lastCall' = [tool |-> "vault_substitute_tokens", text |-> text,
                    agent_id |-> agent_id, at |-> now,
                    streak |-> Streak(text, agent_id, out.response.isError),
                    checks |-> out.checks, reads |-> out.reads,
                    response |-> out.response]
    /\ UNCHANGED <<build, now, credentials, grants, requested, revoked>>
    /\ UNCHANGED <<system, httpVars>>

\* tool vault_substitute_tokens
SubstituteTokens(text, agent_id) ==
    Answered(text, agent_id, handleTokenSubstitution(text, agent_id))

\* VaultDB.listCredentials(namespace): the rows of the filter with every column,
\* encryptedData included; in memory the values of the credentials Map that the
\* handler's filter keeps
listCredentials(namespace) ==
    { c \in credentials :
        namespace \in {Undefined, NULL, ""} \/ c.namespace = namespace }

\* the orders a SELECT without ORDER BY may return rows in
RowOrders(rows) ==
    { order \in [1..Cardinality(rows) -> rows] : Range(order) = rows }

\* one element of the mapped array under JSON.stringify(credentials, null, 2); a
\* description nobody gave is NULL in a row and undefined (left out) in memory
ListedText(cred, agent_id) ==
    "  {\n    \"namespace\": \"" \o cred.namespace
    \o "\",\n    \"name\": \"" \o cred.name \o "\""
    \o (IF build.server = "db" THEN ",\n    \"description\": null" ELSE "")
    \o ",\n    \"token\": \"[VAULT:" \o cred.namespace \o ":" \o cred.name \o "]\""
    \o ",\n    \"hasAccess\": "
    \o (IF agent_id \in {Undefined, NULL, ""} THEN "false"
        ELSE IF build.server = "memory" THEN "true"
        ELSE IF dbHasAccess(agent_id, cred.id) THEN "true" ELSE "false")
    \o "\n  }"

RECURSIVE ListedTexts(_, _, _)
ListedTexts(rows, agent_id, i) ==
    IF i > Len(rows) THEN ""
    ELSE (IF i > 1 THEN ",\n" ELSE "") \o ListedText(rows[i], agent_id)
         \o ListedTexts(rows, agent_id, i + 1)

\* handleListCredentials(args) on the rows the store listed
handleListCredentials(rows, agent_id) ==
    IF Len(rows) = 0 THEN Response("[]")
    ELSE Response("[\n" \o ListedTexts(rows, agent_id, 1) \o "\n]")

\* tool vault_list_credentials; listed notes what the store's list returned
ListCredentials(namespace, agent_id, rows) ==
    /\ system = "mcp"
    /\ console' = <<>>
    /\ lastCall' = [tool |-> "vault_list_credentials", namespace |-> namespace,
                    agent_id |-> agent_id, listed |-> rows,
                    response |-> handleListCredentials(rows, agent_id)]
    /\ UNCHANGED <<build, now, credentials, grants, requested, revoked>>
    /\ UNCHANGED <<system, httpVars>>

\* CLI: vault revoke <credential> <agent>. It reports success and changes nothing;
\* revoked notes the grants the report covers
Revoke(credential, agent) ==
    LET covered == { g \in grants :
                       /\ g.agent_id = agent
                       /\ g.is_active
                       /\ \E c \in credentials :
                            KeyOf(c) = credential /\ c.id = g.credential_id }
    IN /\ system = "mcp"
       /\ revoked' = revoked \cup { g.id : g \in covered }
       /\ console' = <<>>
       /\ lastCall' = [tool |-> "revoke", credential |-> credential, agent |-> agent,
                       response |-> Response("Access revoked")]
       /\ UNCHANGED <<build, now, credentials, grants, requested>>
       /\ UNCHANGED <<system, httpVars>>

\* what a caller of vault_grant_access names: the id of a stored credential or the
\* key it was shown, or the ids of two stored credentials
GrantInputs ==
    LET stored == { c.id : c \in credentials }
    IN { <<a>> : a \in stored \cup {"personal:chase_login"} }
       \cup { p \in stored \X stored : p[1] # p[2] }

RevokeCommand == \E k \in Keys : \E agent \in Agents : Revoke(KeyOf(k), agent)

-----------------------------------------------------------------------------
(* The HTTP categories server (express): schema, handlers and audit log *)

\* config/pii-schema.json as the category reference and the README give it: three
\* of its categories, with the fields the handlers read
piiSchema ==
    [categories |-> <<
        [id |-> "ssn", name |-> "Social Security Number",
         pattern |-> "^\\d{3}-\\d{2}-\\d{4}$",
         patternDescription |-> "3-digit-2-digit-4-digit format",
         sensitivityLevel |-> "critical", maskFormat |-> "XXX-XX-****",
         allowExport |-> FALSE],
        [id |-> "email", name |-> "Email",
         pattern |-> "^[^@\\s]+@[^@\\s]+\\.[^@\\s]+$",
         patternDescription |-> "name@domain.tld",
         sensitivityLevel |-> "medium", maskFormat |-> "***@***.***",
         allowExport |-> TRUE],
        [id |-> "jwt_token", name |-> "JWT Token",
         pattern |-> "^eyJ[A-Za-z0-9_-]+\\.[A-Za-z0-9_-]+\\.[A-Za-z0-9_-]+$",
         patternDescription |-> "three base64url segments separated by dots",
         sensitivityLevel |-> "high", maskFormat |-> "eyJ***",
         allowExport |-> FALSE] >>]

NoCategory == [id |-> NULL]

\* piiSchema.categories.find((c) => c.id === id)
FindCategory(id) ==
    LET cs == piiSchema.categories
        hits == { i \in 1..Len(cs) : cs[i].id = id }
    IN IF hits = {} THEN NoCategory
       ELSE cs[CHOOSE i \in hits : \A j \in hits : i <= j]

DigitChars == { Substring(Digits, i, i) : i \in 1..Len(Digits) }
WhiteSpace == { " ", "\t", "\n", "\r", "\f" }

AllDigits(s) == \A i \in 1..Len(s) : CharAt(s, i) \in DigitChars

\* new RegExp(pattern).test(value), for the patterns of the schema
RegExpTest(pattern, value) ==
    IF pattern = "^\\d{3}-\\d{2}-\\d{4}$"
    THEN /\ Len(value) = 11
         /\ AllDigits(Substring(value, 1, 3)) /\ CharAt(value, 4) = "-"
         /\ AllDigits(Substring(value, 5, 6)) /\ CharAt(value, 7) = "-"
         /\ AllDigits(Substring(value, 8, 11))
    ELSE IF pattern = "^[^@\\s]+@[^@\\s]+\\.[^@\\s]+$"
    THEN LET n == Len(value)
             ats == { i \in 1..n : CharAt(value, i) = "@" }
             at == CHOOSE i \in ats : TRUE
         IN /\ Cardinality(ats) = 1
            /\ \A i \in 1..n : CharAt(value, i) \notin WhiteSpace
            /\ at > 1
            /\ \E d \in (at + 2)..(n - 1) : CharAt(value, d) = "."
    ELSE IF pattern = "^eyJ[A-Za-z0-9_-]+\\.[A-Za-z0-9_-]+\\.[A-Za-z0-9_-]+$"
    THEN LET n == Len(value)
             dots == { i \in 1..n : CharAt(value, i) = "." }
         IN /\ Substring(value, 1, 3) = "eyJ"
            /\ Cardinality(dots) = 2
            /\ \A i \in (1..n) \ dots : CharAt(value, i) \in TokenChars
            /\ \A d \in dots : d > 4 /\ d < n /\ d + 1 \notin dots
    ELSE FALSE

\* validatePattern(value, categoryId)
validatePattern(value, categoryId) ==
    LET category == FindCategory(categoryId)
    IN IF category.id = NULL THEN FALSE ELSE RegExpTest(category.pattern, value)

\* the values clients submit
HttpValues == { "123-45-6789", "12-3456789", "user@example.com", "not-an-email" }

\* crypto.createHash("sha256").update(value).digest("hex")
SHA256 ==
    [v \in HttpValues |->
        CASE v = "123-45-6789" ->
                 "01a54629efb952287e554eb23ef69c52097a75aecc0e3a93ca0855ab6d7a31a0"
          [] v = "12-3456789" ->
                 "489553f3942f7a333a54471545575969abdeb9f5d351cd87e381eeaa7bb781e9"
          [] v = "user@example.com" ->
                 "b4c9a289323b21a01c3e940f150eb9b8c542587f1abfd8f0e1cc1ffc5e475514"
          [] v = "not-an-email" ->
                 "eba038945cb806ba629b6f4524d54ac7dddd3c3f46bcb12b19d9cf727aa4bdf5"]

\* a change of the code under which the audit entry takes the value itself
hashValuePlain(value) == value

\* hashValue(value)
hashValue(value) == SHA256[value]

\* !x of JavaScript for the values of the model
Falsy(x) == x \in {Undefined, NULL, ""}

\* x || dflt
OrElse(x, dflt) == IF Falsy(x) THEN dflt ELSE x

\* req.ip
ClientIp == "::1"

\* new Date().toISOString(), the clock in minutes
toISOString(t) == "1970-01-01T00:0" \o Substring(Digits, t + 1, t + 1) \o ":00.000Z"

NumberText(n) == Substring(Digits, n + 1, n + 1)

Quote(str) == "\"" \o str \o "\""

\* the event handed to auditLog; a field the caller leaves out is Undefined, and
\* details are <<key, JSON text>> pairs
Event(action, category, sensitivityLevel, status, details, valueHash) ==
    [action |-> action, category |-> category, sensitivityLevel |-> sensitivityLevel,
     status |-> status, details |-> details, clientIp |-> ClientIp,
     valueHash |-> valueHash]

\* the auditEntry auditLog builds from an event
auditEntry(event) ==
    [timestamp |-> toISOString(now),
     action |-> event.action,
     category |-> OrElse(event.category, NULL),
     sensitivityLevel |-> OrElse(event.sensitivityLevel, NULL),
     status |-> OrElse(event.status, "success"),
     details |-> IF event.details = Undefined THEN <<>> ELSE event.details,
     clientIp |-> OrElse(event.clientIp, "unknown"),
     valueHash |-> OrElse(event.valueHash, NULL)]

JsonOrNull(x) == IF x = NULL THEN "null" ELSE Quote(x)

\* the members of details; JSON.stringify leaves out an undefined member
RECURSIVE DetailMembers(_, _, _)
DetailMembers(details, i, first) ==
    IF i > Len(details) THEN ""
    ELSE IF details[i][2] = Undefined THEN DetailMembers(details, i + 1, first)
    ELSE (IF first THEN "" ELSE ",") \o Quote(details[i][1]) \o ":" \o details[i][2]
         \o DetailMembers(details, i + 1, FALSE)

\* JSON.stringify(auditEntry) + "\n": the line appendFile writes
AuditLine(entry) ==
    "{\"timestamp\":" \o Quote(entry.timestamp)
    \o ",\"action\":" \o Quote(entry.action)
    \o ",\"category\":" \o JsonOrNull(entry.category)
    \o ",\"sensitivityLevel\":" \o JsonOrNull(entry.sensitivityLevel)
    \o ",\"status\":" \o Quote(entry.status)
    \o ",\"details\":{" \o DetailMembers(entry.details, 1, TRUE) \o "}"
    \o ",\"clientIp\":" \o Quote(entry.clientIp)
    \o ",\"valueHash\":" \o JsonOrNull(entry.valueHash) \o "}\n"

\* auditLog(event), up to its first await: the entry is built and its write is
\* under way; request numbers the request that called it
auditLog(event) == [request |-> requests + 1, entry |-> auditEntry(event)]

\* a handler returns: the calls of auditLog it made are in flight, none awaited
Handled(route, body, response, events) ==
    /\ system = "http"
    /\ requests < MaxRequests
    /\ requests' = requests + 1
    /\ pending' = pending \cup { auditLog(events[i]) : i \in 1..Len(events) }
    /\ lastCall' = [tool |-> route, request |-> requests + 1, body |-> body,
                    response |-> response]
    /\ console' = <<>>
    /\ UNCHANGED <<now, auditFile>>
    /\ UNCHANGED <<system, build, credentials, grants, requested, revoked>>

Json(status, body) == [status |-> status, body |-> body]

\* GET /api/schema
GetSchema ==
    Handled("GET /api/schema", Undefined, Json(200, piiSchema),
            << Event("schema_read", Undefined, Undefined, "success", Undefined,
                     Undefined) >>)

\* GET /api/categories
GetCategories ==
    LET cs == piiSchema.categories
        categories == [i \in 1..Len(cs) |->
                         [id |-> cs[i].id, name |-> cs[i].name,
                          sensitivityLevel |-> cs[i].sensitivityLevel,
                          patternDescription |-> cs[i].patternDescription]]
    IN Handled("GET /api/categories", Undefined, Json(200, categories),
               << Event("categories_list", Undefined, Undefined, "success",
                        Undefined, Undefined) >>)

\* GET /api/category/:id
GetCategory(id) ==
    LET category == FindCategory(id)
    IN IF category.id = NULL
       THEN Handled("GET /api/category/:id", id,
                    Json(404, [error |-> "Category not found"]),
                    << Event("category_read", id, Undefined, "not_found",
                             Undefined, Undefined) >>)
       ELSE Handled("GET /api/category/:id", id, Json(200, category),
                    << Event("category_read", id, category.sensitivityLevel,
                             "success", Undefined, Undefined) >>)

\* POST /api/validate
PostValidate(body) ==
    LET category == FindCategory(body.categoryId)
        isValid == validatePattern(body.value, body.categoryId)
    IN IF Falsy(body.value) \/ Falsy(body.categoryId)
       THEN Handled("POST /api/validate", body,
                    Json(400, [error |-> "Missing value or categoryId"]), <<>>)
       ELSE IF category.id = NULL
       THEN Handled("POST /api/validate", body,
                    Json(404, [error |-> "Category not found"]), <<>>)
       ELSE Handled("POST /api/validate", body,
                    Json(200, [valid |-> isValid, category |-> body.categoryId,
                               sensitivityLevel |-> category.sensitivityLevel,
                               maskFormat |-> category.maskFormat]),
                    << Event("validate", body.categoryId, category.sensitivityLevel,
                             IF isValid THEN "valid" ELSE "invalid",
                             Undefined, Undefined) >>)

\* POST /api/vault-item/add
PostVaultItemAdd(body) ==
    LET category == FindCategory(body.categoryId)
        isValid == validatePattern(body.value, body.categoryId)
    IN IF \/ Falsy(body.namespace) \/ Falsy(body.name)
          \/ Falsy(body.categoryId) \/ Falsy(body.value)
       THEN Handled("POST /api/vault-item/add", body,
                    Json(400, [error |-> "Missing required fields"]), <<>>)
       ELSE IF category.id = NULL
       THEN Handled("POST /api/vault-item/add", body,
                    Json(404, [error |-> "Category not found"]), <<>>)
       ELSE IF ~isValid
       THEN Handled("POST /api/vault-item/add", body,
                    Json(400, [error |-> "Value does not match " \o category.name
                                   \o " pattern: " \o category.patternDescription,
                               category |-> category]),
                    << Event("vault_add", body.categoryId, Undefined,
                             "validation_failed",
                             << <<"reason", Quote("Pattern mismatch")>> >>,
                             Undefined) >>)
       ELSE Handled("POST /api/vault-item/add", body,
                    Json(200, [success |-> TRUE,
                               token |-> "[VAULT:" \o body.namespace \o ":"
                                         \o body.name \o "]",
                               category |-> body.categoryId,
                               sensitivityLevel |-> category.sensitivityLevel,
                               message |-> "Added " \o category.name \o " to vault"]),
                    << Event("vault_add", body.categoryId, category.sensitivityLevel,
                             "success", Undefined, hashValue(body.value)) >>)

\* POST /api/vault-item/delete
PostVaultItemDelete(body) ==
    IF body.id = Undefined
    THEN Handled("POST /api/vault-item/delete", body,
                 Json(400, [error |-> "Missing id"]), <<>>)
    ELSE Handled("POST /api/vault-item/delete", body,
                 Json(200, [success |-> TRUE,
                            message |-> "Item " \o body.id \o " deleted"]),
                 << Event("vault_delete", Undefined, Undefined, "success",
                          << <<"itemId", Quote(body.id)>> >>, Undefined) >>)

\* items?.length as JSON text
ItemCount(items) == IF items = Undefined THEN Undefined ELSE NumberText(Len(items))

\* the blockedCategories the export handler answers with
blockedCategories == << "ssn", "credit_card", "api_key", "private_key",
                        "database_password" >>

\* POST /api/vault/export
PostVaultExport(body) ==
    LET items == body.items
        hasCritical ==
            /\ items # Undefined
            /\ \E i \in 1..Len(items) :
                 LET category == FindCategory(items[i].categoryId)
                 IN /\ category.id # NULL
                    /\ category.allowExport = FALSE
                    /\ category.sensitivityLevel = "critical"
    IN IF hasCritical
       THEN Handled("POST /api/vault/export", body,
                    Json(403, [error |-> "Cannot export vault containing critical PII (SSN, credit card, API keys, private keys)",
                               blockedCategories |-> blockedCategories]),
                    << Event("vault_export", Undefined, Undefined, "blocked",
                             << <<"reason", Quote("Critical PII in export")>>,
                                <<"itemCount", ItemCount(items)>> >>,
                             Undefined) >>)
       ELSE Handled("POST /api/vault/export", body,
                    Json(200, [success |-> TRUE,
                               itemCount |-> IF items = Undefined THEN 0 ELSE Len(items),
                               timestamp |-> toISOString(now),
                               warning |-> "Never share exported vault data. Contains sensitive credentials."]),
                    << Event("vault_export", Undefined, Undefined, "success",
                             << <<"itemCount", ItemCount(items)>> >>, Undefined) >>)

\* JSON.parse of a line AuditLine wrote
ParseAuditLine(line) ==
    CHOOSE e \in { r.entry : r \in Range(auditFile) } : AuditLine(e) = line

\* GET /api/audit-log: the entries of the file, the most recent first
GetAuditLog ==
    LET n == Len(auditFile)
        entries == [i \in 1..n |-> ParseAuditLine(AuditLine(auditFile[n + 1 - i].entry))]
    IN Handled("GET /api/audit-log", Undefined,
               Json(200, [total |-> n, entries |-> entries]), <<>>)

\* POST /delete (legacy)
LegacyDelete(body) ==
    Handled("POST /delete", body, Json(200, [success |-> TRUE]),
            << Event("vault_delete", Undefined, Undefined, "success",
                     << <<"itemId", IF body.id = Undefined THEN Undefined
                                    ELSE Quote(body.id)>> >>, Undefined) >>)

\* POST /export (legacy)
LegacyExport ==
    Handled("POST /export", Undefined, Json(200, <<>>),
            << Event("vault_export", Undefined, Undefined, "success", Undefined,
                     Undefined) >>)

\* a change of the code under which auditLog writes the file with fs.writeFile
WriteFile ==
    \E w \in pending :
        /\ system = "http"
        /\ pending' = pending \ {w}
        /\ auditFile' = <<w>>
        /\ UNCHANGED <<now, console, lastCall, requests>>
        /\ UNCHANGED <<system, build, credentials, grants, requested, revoked>>

\* fs.appendFile of one call of auditLog completes; the calls in flight complete
\* in any order
AppendFile ==
    \E w \in pending :
        /\ system = "http"
        /\ pending' = pending \ {w}
        /\ auditFile' = Append(auditFile, w)
        /\ UNCHANGED <<now, console, lastCall, requests>>
        /\ UNCHANGED <<system, build, credentials, grants, requested, revoked>>

\* fs.mkdir or fs.appendFile rejects: the catch of auditLog reports it on the
\* console and the entry is gone
AppendFails ==
    \E w \in pending :
        /\ pending' = pending \ {w}
        /\ system = "http"
        /\ console' = << "CRITICAL: Audit logging failed: ENOSPC" >>
        /\ UNCHANGED <<now, auditFile, lastCall, requests>>
        /\ UNCHANGED <<system, build, credentials, grants, requested, revoked>>

\* the request bodies of the model
AddBodies ==
    { [namespace |-> "personal", name |-> "my_item", categoryId |-> c[1], value |-> c[2]] :
        c \in { <<"ssn", "123-45-6789">>, <<"ssn", "12-3456789">>,
                <<"email", "user@example.com">>, <<"tax", "12-3456789">>,
                <<"ssn", Undefined>> } }

ValidateBodies ==
    { [value |-> c[1], categoryId |-> c[2]] :
        c \in { <<"123-45-6789", "ssn">>, <<"not-an-email", "email">>,
                <<"user@example.com", Undefined>>, <<"user@example.com", "tax">> } }

ExportItem(categoryId, value) == [categoryId |-> categoryId, value |-> value]

ExportBodies ==
    { [items |-> Undefined],
      [items |-> << ExportItem("email", "user@example.com") >>],
      [items |-> << ExportItem("email", "user@example.com"),
                    ExportItem("ssn", "123-45-6789") >>],
      [items |-> << ExportItem("email", "user@example.com"),
                    ExportItem("jwt_token", "eyJh.eyJz.c2ln") >>] }

DeleteBodies == { [id |-> "item-1"], [id |-> Undefined] }

HttpInit ==
    /\ build = [server |-> "http", errors |-> "none"]
    /\ now = 0
    /\ credentials = {}
    /\ grants = {}
    /\ console = <<>>
    /\ lastCall = [tool |-> "none"]
    /\ requested = {}
    /\ revoked = {}
    /\ auditFile = <<>>
    /\ pending = {}
    /\ requests = 0

HttpNext ==
    \/ GetSchema
    \/ GetCategories
    \/ \E id \in {"ssn", "tax"} : GetCategory(id)
    \/ \E body \in ValidateBodies : PostValidate(body)
    \/ \E body \in AddBodies : PostVaultItemAdd(body)
    \/ \E body \in DeleteBodies : PostVaultItemDelete(body)
    \/ \E body \in ExportBodies : PostVaultExport(body)
    \/ GetAuditLog
    \/ \E body \in DeleteBodies : LegacyDelete(body)
    \/ LegacyExport
    \/ AppendFile
    \/ AppendFails

-----------------------------------------------------------------------------
(* Specifications *)

vars == <<system, mcpVars, httpVars>>

\* no HTTP server in a run of the MCP server
HttpIdle == auditFile = <<>> /\ pending = {} /\ requests = 0

Init == system = "mcp" /\ McpInit /\ HttpIdle

\* the MCP server and the CLI, every grant without limits
Next ==
    \/ \E k \in Keys : \E data \in DataFor(k.name) :
          AddCredential(k.namespace, k.name, data)
    \/ \E ids \in GrantInputs : \E agent \in Agents : \E by \in {agent, Owner} :
          GrantAccess(ids, agent, 0, 0, by)
    \/ \E text \in Texts : \E agent \in Agents : SubstituteTokens(text, agent)
    \/ RevokeCommand
    \/ \E namespace \in {Undefined, "work"} : \E agent \in {Undefined, "grant"} :
          \E rows \in RowOrders(listCredentials(namespace)) :
             ListCredentials(namespace, agent, rows)

Spec == Init /\ [][Next]_vars

\* one agent and one credential, grants with every term, and the clock
NextTerms ==
    \/ \E data \in DataFor("schwab_api") : AddCredential("personal", "schwab_api", data)
    \/ \E c \in credentials : \E t \in GrantTerms : \E by \in {"grant", Owner} :
          GrantAccess(<<c.id>>, "grant", t[1], t[2], by)
    \/ SubstituteTokens("key=[VAULT:personal:schwab_api]", "grant")
    \/ Tick

SpecTerms == Init /\ [][NextTerms]_vars

\* the HTTP server
InitHttp == system = "http" /\ HttpInit

SpecHttp == InitHttp /\ [][HttpNext]_vars

\* either process: the MCP server with one agent, or the HTTP server
InitAudit == Init \/ InitHttp

NextAudit ==
    \/ \E k \in Keys : \E data \in DataFor(k.name) :
          AddCredential(k.namespace, k.name, data)
    \/ \E c \in credentials : GrantAccess(<<c.id>>, "grant", 0, 0, Owner)
    \/ \E text \in Texts : SubstituteTokens(text, "grant")
    \/ HttpNext

SpecAudit == InitAudit /\ [][NextAudit]_vars

\* TokenEngine called directly, as its tests call it: the texts and the
\* credentials Maps of the callers
EngineTexts ==
    { "no tokens here",
      "[VAULT:invalid] VAULT:personal:no_brackets [NOT_VAULT:personal:token]",
      "key=[VAULT:personal:schwab_api]",
      "[VAULT:personal:schwab_api]+[VAULT:personal:schwab_api]",
      "[VAULT:personal:chase_login.username]:[VAULT:personal:chase_login.password]",
      "[VAULT:personal:chase_login]",
      "[VAULT:personal:schwab_api.ssn]",
      "[VAULT:personal:chase_login.toString]",
      "[VAULT:personal:[VAULT:personal:schwab_api]] [VAULT:personal:tok9]",
      "[VAULT:work:db-1.pass_word] [VAULT:per sonal:x]" }

EngineKeys == { "personal:schwab_api", "personal:chase_login", "personal:tok9",
                "work:db-1" }

EngineMaps ==
    { [key \in EngineKeys |->
         CASE key = "personal:schwab_api" -> a
           [] key = "personal:chase_login" -> b
           [] key = "personal:tok9" -> Str("w1")
           [] OTHER -> Obj(<< <<"pass_word", "s3">> >>)] :
      a \in { Absent, Str(""), Str("tok9"), Str("a$$b"), Str("$&") },
      b \in { Absent,
              Obj(<< <<"username", "m@x.com">>, <<"password", "p1">> >>),
              Obj(<< <<"value", "v1">> >>) } }

\* a test holds an engine, a text and a Map
InitEngine ==
    /\ system = "engine"
    /\ build = [server |-> "none", errors |-> "message"]
    /\ now = 0
    /\ credentials = {}
    /\ grants = {}
    /\ console = <<>>
    /\ lastCall \in { [tool |-> "input", text |-> text, credentials |-> creds] :
                         text \in EngineTexts, creds \in EngineMaps }
    /\ requested = {}
    /\ revoked = {}
    /\ HttpIdle

\* engine.extractTokens(text)
EngineExtractTokens ==
    /\ system = "engine"
    /\ lastCall.tool = "input"
    /\ lastCall' = [tool |-> "extractTokens", text |-> lastCall.text,
                    tokens |-> extractTokens(lastCall.text)]
    /\ UNCHANGED <<build, now, credentials, grants, console, requested, revoked>>
    /\ UNCHANGED <<system, httpVars>>

Returns(text, creds, result) ==
    /\ system = "engine"
    /\ lastCall.tool = "input"
    /\ lastCall' = [tool |-> "substituteTokens", text |-> text,
                    credentials |-> creds, result |-> result]
    /\ console' = result.lines
    /\ UNCHANGED <<build, now, credentials, grants, requested, revoked>>
    /\ UNCHANGED <<system, httpVars>>

\* await engine.substituteTokens(text, credentials, {agentId: 'grant', ...})
EngineSubstituteTokens ==
    Returns(lastCall.text, lastCall.credentials,
            substituteTokens(lastCall.text, lastCall.credentials, "grant"))

\* TokenEngine.validateTokenFormat(text) and TokenEngine.parseToken(text)
EngineValidateAndParse ==
    /\ system = "engine"
    /\ lastCall.tool = "input"
    /\ lastCall' = [tool |-> "validateTokenFormat", text |-> lastCall.text,
                    valid |-> validateTokenFormat(lastCall.text),
                    parsed |-> parseToken(lastCall.text)]
    /\ UNCHANGED <<build, now, credentials, grants, console, requested, revoked>>
    /\ UNCHANGED <<system, httpVars>>

\* the token engine on its own, or under the MCP server with one agent
InitEngineOrServer == InitEngine \/ Init

NextEngine ==
    \/ EngineExtractTokens
    \/ EngineSubstituteTokens
    \/ EngineValidateAndParse
    \/ \E k \in Keys : \E data \in DataFor(k.name) :
          AddCredential(k.namespace, k.name, data)
    \/ \E c \in credentials : GrantAccess(<<c.id>>, "grant", 0, 0, Owner)
    \/ \E text \in Texts : SubstituteTokens(text, "grant")

SpecEngine == InitEngineOrServer /\ [][NextEngine]_vars

\* the MCP server as a store: adds and re-adds of both keys, grants of the owner
\* to either agent, and substitutions
NextStore ==
    \/ \E k \in Keys : \E data \in DataFor(k.name) :
          AddCredential(k.namespace, k.name, data)
    \/ \E c \in credentials : \E agent \in Agents :
          GrantAccess(<<c.id>>, agent, 0, 0, Owner)
    \/ \E agent \in Agents :
          SubstituteTokens("key=[VAULT:personal:schwab_api]", agent)

SpecStore == Init /\ [][NextStore]_vars

-----------------------------------------------------------------------------
(* Properties *)

IsSubstitution == lastCall.tool = "vault_substitute_tokens"

\* the response of the last call shows a value of stored credential c
Returned(c) ==
    \E v \in PlainValues(JSONparse(c.encrypted_data)) :
        Contains(lastCall.response.text, v)

\* an active grant for exactly (agent, c)
ActiveGrant(agent, c) ==
    \E g \in grants : g.agent_id = agent /\ g.credential_id = c.id /\ g.is_active

\* what the grant requests for (agent, c) asked for
RequestedFor(agent, c) ==
    { r \in requested : r.agent_id = agent /\ r.credential_id = c.id }

RECURSIVE SumUses(_)
SumUses(rs) ==
    IF rs = {} THEN 0
    ELSE LET r == CHOOSE x \in rs : TRUE IN r.max_uses + SumUses(rs \ {r})

\* C1 Default-deny: a vault_substitute_tokens call by agent A returns a value of
\* stored credential C only if an active grant for exactly (A, C) exists at the
\* time of the call.
C1_DefaultDeny ==
    IsSubstitution =>
        \A c \in credentials : Returned(c) => ActiveGrant(lastCall.agent_id, c)

C3_NoDoubleSpend ==
    (IsSubstitution /\ ~lastCall.response.isError) =>
        \A c \in credentials :
            LET rs == RequestedFor(lastCall.agent_id, c)
            IN (Returned(c) /\ rs # {} /\ \A r \in rs : r.max_uses >= 1)
                  => lastCall.streak <= SumUses(rs)

\* C4 Expiry: a substitution performed after the expiry time (grant time + D) of
\* every grant of (A, C), each created with a positive duration D, is denied.
C4_Expiry ==
    IsSubstitution =>
        \A c \in credentials :
            LET rs == RequestedFor(lastCall.agent_id, c)
            IN (rs # {} /\ \A r \in rs : r.expires >= 0 /\ lastCall.at > r.expires)
                  => ~Returned(c)

\* C5 Revocation is effective and irreversible: a grant covered by a revocation
\* that reported success is inactive from then on, and a substitution of C by A
\* succeeds only under an active grant that no revocation covered.
C5_Revocation ==
    /\ \A g \in grants : g.id \in revoked => ~g.is_active
    /\ IsSubstitution =>
          \A c \in credentials :
              (Returned(c) /\ RequestedFor(lastCall.agent_id, c) # {}) =>
                  \E g \in grants :
                      /\ g.agent_id = lastCall.agent_id /\ g.credential_id = c.id
                      /\ g.is_active /\ g.id \notin revoked

\* C6 No self-granting: agent A never passes the access check for C when every
\* vault_grant_access request for (A, C) was sent by A itself.
C6_NoSelfGrant ==
    IsSubstitution =>
        \A c \in credentials :
            LET rs == RequestedFor(lastCall.agent_id, c)
            IN (Returned(c) /\ rs # {}) => \E r \in rs : r.by # lastCall.agent_id

\* C7 Plaintext is never persisted: the stored payload of a credential is neither
\* the plain serialization of its data nor a text in which a value of the data
\* can be read.
C7_NoPlaintextPersisted ==
    lastCall.tool = "vault_add_credential" =>
        LET c == getCredential(lastCall.namespace, lastCall.name)
        IN /\ c.encrypted_data # JSONstringify(lastCall.data)
           /\ \A v \in PlainValues(lastCall.data) : ~Contains(c.encrypted_data, v)

\* every secret value of the model: what clients of the HTTP server submit, and
\* what the stored credentials of the MCP server hold
HttpSecrets == HttpValues
McpSecrets == UNION { PlainValues(d) : d \in JsonValues }

\* C8 No secret in the audit trail: no line of the HTTP audit log, written or in
\* flight, and no audit line of the token engine contains a secret value as a
\* substring, and the valueHash of an entry is null or the SHA-256 digest of a
\* submitted value.
C8_NoSecretInAudit ==
    /\ \A entry \in { r.entry : r \in Range(auditFile) \cup pending } :
          /\ \A v \in HttpSecrets : ~Contains(AuditLine(entry), v)
          /\ entry.valueHash \in {NULL} \cup Range(SHA256)
    /\ system = "mcp" =>
          \A i \in DOMAIN console : \A v \in McpSecrets : ~Contains(console[i], v)

\* C8 happens: a vault_add of a valid value is in the audit file with its digest
C8_Witness ==
    \E r \in Range(auditFile) :
        /\ r.entry.action = "vault_add"
        /\ r.entry.status = "success"
        /\ r.entry.valueHash = SHA256["123-45-6789"]

\* C9 Grants and check outcomes are audited: every vault_grant_access, and every
\* vault_substitute_tokens call whose text holds a token (allowed or denied),
\* leaves an audit entry.
C9_GrantsAndChecksAudited ==
    /\ lastCall.tool = "vault_grant_access" => console # <<>>
    /\ (IsSubstitution /\ Len(extractTokens(lastCall.text)) > 0) => console # <<>>

\* C10 Exactly one audit entry per event: once the audit writes of a POST
\* /api/vault-item/add (POST /api/vault/export) request have settled, the audit
\* file holds exactly one entry of that request, of action vault_add
\* (vault_export).
C10_ExactlyOneAuditEntry ==
    \A route \in {"POST /api/vault-item/add", "POST /api/vault/export"} :
        (/\ lastCall.tool = route
         /\ \A w \in pending : w.request # lastCall.request) =>
            Cardinality({ i \in DOMAIN auditFile :
                            /\ auditFile[i].request = lastCall.request
                            /\ auditFile[i].entry.action =
                                  (IF route = "POST /api/vault-item/add"
                                   THEN "vault_add" ELSE "vault_export") }) = 1

\* the export call the properties below look at
IsExport == system = "http" /\ lastCall.tool = "POST /api/vault/export"

\* the category identifiers of a batch whose category does not allow export
ExportDisallowed(items) ==
    IF items = Undefined THEN {}
    ELSE { items[i].categoryId : i \in { j \in 1..Len(items) :
              LET category == FindCategory(items[j].categoryId)
              IN category.id # NULL /\ category.allowExport = FALSE } }

\* C11 All-or-nothing export: an export whose batch holds an item of a category
\* that does not allow export is answered 403, and an export is answered with
\* success only when no item of the batch is of such a category.
C11_AllOrNothingExport ==
    IsExport =>
        LET blocked == ExportDisallowed(lastCall.body.items)
        IN /\ blocked # {} => lastCall.response.status = 403
           /\ lastCall.response.status = 200 => blocked = {}

\* C12 Blocked-export report is exact: the blockedCategories of a refused export
\* are exactly the export-disallowed category identifiers of the batch's items.
C12_BlockedReportExact ==
    (IsExport /\ lastCall.response.status = 403) =>
        Range(lastCall.response.body.blockedCategories)
            = ExportDisallowed(lastCall.body.items)

\* the validation patterns a response of the HTTP server carries
ExposedPatterns(call) ==
    LET body == call.response.body
        all == { piiSchema.categories[i].pattern : i \in DOMAIN piiSchema.categories }
        Of(category) == IF "pattern" \in DOMAIN category THEN {category.pattern} ELSE {}
    IN CASE call.tool = "GET /api/schema" ->
                UNION { Of(body.categories[i]) : i \in DOMAIN body.categories }
         [] call.tool = "GET /api/categories" ->
                UNION { Of(body[i]) : i \in DOMAIN body }
         [] call.tool = "GET /api/category/:id" -> Of(body)
         [] call.tool = "POST /api/vault-item/add" /\ call.response.status = 400 ->
                { p \in all : Contains(body.error, p) }
                \cup (IF "category" \in DOMAIN body THEN Of(body.category) ELSE {})
         [] OTHER -> {}

\* C13 Validation patterns are never exposed: no response of the HTTP server
\* carries the validation pattern of a category.
C13_PatternsNeverExposed ==
    (system = "http" /\ lastCall.tool # "none") => ExposedPatterns(lastCall) = {}

\* The token grammar, stated on its own: a name is a non-empty string over
\* [A-Za-z0-9_-], a token text is "[VAULT:" name ":" name ("." name)? "]"
IsName(x) == Len(x) >= 1 /\ \A i \in 1..Len(x) : CharAt(x, i) \in TokenChars

\* the ways to read r as a token text (at most one)
Parses(r) ==
    LET body == Substring(r, 8, Len(r) - 1)
        n == Len(body)
        colons == { a \in 1..n : CharAt(body, a) = ":" }
        dots == { b \in 1..n : CharAt(body, b) = "." }
        plain == { [raw |-> r, namespace |-> Substring(body, 1, a - 1),
                    credential |-> Substring(body, a + 1, n), field |-> Undefined] :
                   a \in { a \in colons : /\ IsName(Substring(body, 1, a - 1))
                                          /\ IsName(Substring(body, a + 1, n)) } }
        fielded == { [raw |-> r, namespace |-> Substring(body, 1, p[1] - 1),
                      credential |-> Substring(body, p[1] + 1, p[2] - 1),
                      field |-> Substring(body, p[2] + 1, n)] :
                     p \in { p \in colons \X dots :
                               /\ p[1] < p[2]
                               /\ IsName(Substring(body, 1, p[1] - 1))
                               /\ IsName(Substring(body, p[1] + 1, p[2] - 1))
                               /\ IsName(Substring(body, p[2] + 1, n)) } }
    IN IF Substring(r, 1, 7) = "[VAULT:" /\ CharAt(r, Len(r)) = "]"
       THEN plain \cup fielded ELSE {}

\* the occurrences <<first, last>> of token texts in s
Occurrences(s) ==
    { o \in { i \in 1..Len(s) : Substring(s, i, i + 6) = "[VAULT:" }
            \X { j \in 1..Len(s) : CharAt(s, j) = "]" } :
        o[1] < o[2] /\ Parses(Substring(s, o[1], o[2])) # {} }

\* the k-th occurrence of s, by position
Occurrence(s, k) ==
    CHOOSE o \in Occurrences(s) :
        Cardinality({ q \in Occurrences(s) : q[1] < o[1] }) = k - 1

\* the tokens the grammar finds in s, in order of occurrence
GrammarTokens(s) ==
    [k \in 1..Cardinality(Occurrences(s)) |->
        CHOOSE t \in Parses(Substring(s, Occurrence(s, k)[1], Occurrence(s, k)[2])) :
            TRUE]

\* the text of s outside its occurrences: the piece before the k-th occurrence
\* (k = number of occurrences + 1: the piece after the last)
Gap(s, k) ==
    LET n == Cardinality(Occurrences(s))
        from == IF k = 1 THEN 1 ELSE Occurrence(s, k - 1)[2] + 1
        to == IF k = n + 1 THEN Len(s) ELSE Occurrence(s, k)[1] - 1
    IN Substring(s, from, to)

\* s with its k-th and later occurrences replaced by the values vals gives them
RECURSIVE Rewritten(_, _, _)
Rewritten(s, vals, k) ==
    IF k > Cardinality(Occurrences(s)) THEN Gap(s, k)
    ELSE Gap(s, k) \o vals[k] \o Rewritten(s, vals, k + 1)

\* the pieces of s outside its occurrences are in r, in order, from position i on
RECURSIVE GapsKept(_, _, _, _)
GapsKept(s, r, k, i) ==
    IF k > Cardinality(Occurrences(s)) + 1 THEN TRUE
    ELSE IF Gap(s, k) = "" THEN GapsKept(s, r, k + 1, i)
    ELSE LET at == Find(r, Gap(s, k), i)
         IN at # 0 /\ GapsKept(s, r, k + 1, at + Len(Gap(s, k)))

\* a direct call of substituteTokens, and the values its tokens resolve to
IsEngineCall == system = "engine" /\ lastCall.tool = "substituteTokens"

Resolved(text, creds) ==
    [k \in 1..Len(GrammarTokens(text)) |->
        resolveToken(GrammarTokens(text)[k], creds)]

\* every token resolves to a string
AllStrings(text, creds) ==
    \A k \in DOMAIN Resolved(text, creds) :
        /\ Resolved(text, creds)[k].ok
        /\ Resolved(text, creds)[k].value # Undefined
        /\ ~IsFunction(Resolved(text, creds)[k].value)

\* C14 No-token texts are a no-op: for a text in which the grammar finds no
\* token, substituteTokens returns the text unchanged with no read of the
\* credentials, and vault_substitute_tokens answers the text unchanged with no
\* access check and no read of the store.
C14_NoTokenNoOp ==
    /\ (IsEngineCall /\ Occurrences(lastCall.text) = {}) =>
          /\ lastCall.result.ok
          /\ lastCall.result.text = lastCall.text
          /\ lastCall.result.reads = 0
          /\ console = <<>>
    /\ (system = "mcp" /\ IsSubstitution /\ Occurrences(lastCall.text) = {}) =>
          /\ ~lastCall.response.isError
          /\ lastCall.response.text = lastCall.text
          /\ lastCall.checks = 0
          /\ lastCall.reads = 0

\* C14 happens: both callers have substituted a text without tokens
C14_Witness ==
    \/ /\ IsEngineCall
       /\ lastCall.text = "[VAULT:invalid] VAULT:personal:no_brackets [NOT_VAULT:personal:token]"
       /\ lastCall.result.ok
    \/ /\ system = "mcp" /\ IsSubstitution
       /\ lastCall.text = "no tokens here"
       /\ credentials # {}

\* C15 Round-trip leaves no markers: when every token resolves to a string that
\* holds no "[VAULT:", the text substituteTokens returns holds no token of the
\* input.
C15_NoResidualMarkers ==
    (/\ IsEngineCall
     /\ AllStrings(lastCall.text, lastCall.credentials)
     /\ \A k \in DOMAIN Resolved(lastCall.text, lastCall.credentials) :
           ~Contains(Resolved(lastCall.text, lastCall.credentials)[k].value, "[VAULT:")) =>
        /\ lastCall.result.ok
        /\ \A k \in DOMAIN GrammarTokens(lastCall.text) :
              ~Contains(lastCall.result.text, GrammarTokens(lastCall.text)[k].raw)

\* C16 Single-pass rewrite: when every token resolves to a string, the text
\* substituteTokens returns is the input with every occurrence of a token
\* replaced by the token's value as it is and everything else as it was.
C16_SinglePassRewrite ==
    (IsEngineCall /\ AllStrings(lastCall.text, lastCall.credentials)) =>
        /\ lastCall.result.ok
        /\ lastCall.result.text =
              Rewritten(lastCall.text,
                        [k \in DOMAIN Resolved(lastCall.text, lastCall.credentials) |->
                            Resolved(lastCall.text, lastCall.credentials)[k].value],
                        1)

\* C17 Field selector semantics: for a text of one token with a field selector f
\* whose credential is stored, substituteTokens puts the value of member f in
\* the token's place when the credential is an object with its own member f,
\* and fails with FIELD_NOT_FOUND otherwise.
C17_FieldSelector ==
    (/\ IsEngineCall
     /\ Cardinality(Occurrences(lastCall.text)) = 1
     /\ GrammarTokens(lastCall.text)[1].field # Undefined
     /\ MapGet(lastCall.credentials, CredentialKey(GrammarTokens(lastCall.text)[1]))
           \notin {Absent, Str("")}) =>
        LET token == GrammarTokens(lastCall.text)[1]
            credential == MapGet(lastCall.credentials, CredentialKey(token))
        IN IF HasField(credential, token.field)
           THEN /\ lastCall.result.ok
                /\ lastCall.result.text =
                      Gap(lastCall.text, 1) \o GetField(credential, token.field)
                          \o Gap(lastCall.text, 2)
           ELSE /\ ~lastCall.result.ok
                /\ lastCall.result.code = "FIELD_NOT_FOUND"

\* C18 No silent drop: substituteTokens fails with CREDENTIAL_NOT_FOUND or
\* FIELD_NOT_FOUND, or every token of the text resolves to a string stored for
\* its credential and the text returned holds no placeholder.
C18_NoSilentDrop ==
    IsEngineCall =>
        IF ~lastCall.result.ok
        THEN lastCall.result.code \in {"CREDENTIAL_NOT_FOUND", "FIELD_NOT_FOUND"}
        ELSE /\ \A k \in DOMAIN GrammarTokens(lastCall.text) :
                   Resolved(lastCall.text, lastCall.credentials)[k].value \in
                       PlainValues(MapGet(lastCall.credentials,
                                          CredentialKey(GrammarTokens(lastCall.text)[k])))
             /\ ~Contains(lastCall.result.text, "undefined")

\* the extraction half of C19: extractTokens returns the tokens of the grammar,
\* in order of occurrence
ExtractionFollowsGrammar ==
    (system = "engine" /\ lastCall.tool = "extractTokens") =>
        lastCall.tokens = GrammarTokens(lastCall.text)

\* C19 Extraction follows the grammar: extractTokens returns, in order of
\* occurrence, one token per occurrence of the grammar with the matched parts,
\* and a substitution that succeeds leaves the text outside the occurrences as
\* it was.
C19_ExtractionFollowsGrammar ==
    /\ ExtractionFollowsGrammar
    /\ (IsEngineCall /\ lastCall.result.ok) =>
          GapsKept(lastCall.text, lastCall.result.text, 1, 1)

\* C20 Listing is metadata-only: neither the rows the store's list returns nor
\* the answer of vault_list_credentials carries the stored payload or a value of
\* a credential.
C20_ListingMetadataOnly ==
    (system = "mcp" /\ lastCall.tool = "vault_list_credentials") =>
        /\ \A i \in DOMAIN lastCall.listed :
              "encrypted_data" \notin DOMAIN lastCall.listed[i]
        /\ \A c \in credentials :
              /\ ~Contains(lastCall.response.text, c.encrypted_data)
              /\ \A v \in PlainValues(JSONparse(c.encrypted_data)) :
                    ~Contains(lastCall.response.text, v)

\* the tool half of C20: the answer of vault_list_credentials carries no payload
\* and no value
ListAnswerMetadataOnly ==
    (system = "mcp" /\ lastCall.tool = "vault_list_credentials") =>
        \A c \in credentials :
            /\ ~Contains(lastCall.response.text, c.encrypted_data)
            /\ \A v \in PlainValues(JSONparse(c.encrypted_data)) :
                  ~Contains(lastCall.response.text, v)

C22_AuditAppendOnly ==
    [][ /\ Len(auditFile') >= Len(auditFile)
        /\ SubSeq(auditFile', 1, Len(auditFile)) = auditFile ]_vars

\* C22 happens: an entry was appended behind an entry written before
C22_Witness ==
    /\ system = "http"
    /\ Len(auditFile) = 2
    /\ auditFile[1].request = 1
    /\ auditFile[2].request = 2

\* C23 Serialized audit appends: no step loses a call of auditLog - a call in
\* flight or written stays in flight or written - and the audit file holds every
\* call at most once.
C23_SerializedAppends ==
    [][ /\ (Range(auditFile) \cup pending) \subseteq (Range(auditFile') \cup pending')
        /\ Cardinality(Range(auditFile')) = Len(auditFile') ]_vars

\* the distinct (namespace, credential, field) of the tokens of a text
DistinctTokens(text) ==
    { <<t.namespace, t.credential, t.field>> : t \in Range(GrammarTokens(text)) }

\* C24 Deduplication: a substitution that succeeds performs one read of the
\* credentials and writes one audit line per distinct (namespace, credential,
\* field) of its text, and the MCP handler one access check and one store read.
C24_Deduplication ==
    /\ (IsEngineCall /\ lastCall.result.ok) =>
          /\ lastCall.result.reads = Cardinality(DistinctTokens(lastCall.text))
          /\ Len(console) = Cardinality(DistinctTokens(lastCall.text))
    /\ (system = "mcp" /\ IsSubstitution /\ ~lastCall.response.isError) =>
          /\ lastCall.checks = Cardinality(DistinctTokens(lastCall.text))
          /\ lastCall.reads = Cardinality(DistinctTokens(lastCall.text))

\* C25 Single-candidate validation is whole-string and consistent:
\* validateTokenFormat(s) is true, and parseToken(s) is not null, exactly when
\* the whole of s is one token of the grammar; the parsed token then has raw s
\* and the parts of s.
C25_WholeStringValidation ==
    (system = "engine" /\ lastCall.tool = "validateTokenFormat") =>
        /\ lastCall.valid <=> Parses(lastCall.text) # {}
        /\ lastCall.parsed.matched <=> Parses(lastCall.text) # {}
        /\ lastCall.parsed.matched =>
              /\ lastCall.parsed.token.raw = lastCall.text
              /\ lastCall.parsed.token \in Parses(lastCall.text)

C28_NotFoundIffAbsent ==
    IsEngineCall =>
        \A t \in Range(extractTokens(lastCall.text)) :
            LET r == resolveToken(t, lastCall.credentials)
            IN (~r.ok /\ r.code = "CREDENTIAL_NOT_FOUND")
                  <=> MapGet(lastCall.credentials, CredentialKey(t)) = Absent

\* C29 No audit for a failed substitution: when substituteTokens rejects because
\* the credential or the field of some token is missing, no "[AUDIT]" line has
\* been written for any token of that call.
C29_NoAuditOnFailure ==
    (/\ IsEngineCall
     /\ ~lastCall.result.ok
     /\ lastCall.result.code \in {"CREDENTIAL_NOT_FOUND", "FIELD_NOT_FOUND"}) =>
        /\ lastCall.result.lines = <<>>
        /\ console = <<>>

\* C30 A success response implies an audit record: once POST /api/vault-item/add
\* has answered success with a token and no audit write of that request is still
\* in flight, the audit file holds the vault_add entry of that request; no
\* failed audit write stands beside the success response.
C30_SuccessImpliesAudit ==
    (/\ system = "http"
     /\ lastCall.tool = "POST /api/vault-item/add"
     /\ lastCall.response.status = 200
     /\ \A w \in pending : w.request # lastCall.request) =>
        \E i \in DOMAIN auditFile :
            /\ auditFile[i].request = lastCall.request
            /\ auditFile[i].entry.action = "vault_add"
            /\ auditFile[i].entry.status = "success"

====
